---- MODULE Spec2Model ----
(***************************************************************************)
(* Model of src/universal_orchestrator.py: JobConfig validation, the       *)
(* payload built by VertexOrchestrator._deploy_job, the fan-out of         *)
(* deploy() on the asyncio event loop, the polling loop of monitor() with  *)
(* its snapshot files, cancel_job() and get_console_urls().                *)
(*                                                                         *)
(* Python values are represented as follows: a str is a TLA+ string, None  *)
(* is the reserved value None, a dict is a function whose DOMAIN is the    *)
(* set of keys present, a list is a sequence.  The remote platform (the    *)
(* JobServiceClient) is the environment: the outcome of every call to it   *)
(* is an input chosen with \E.                                             *)
(***************************************************************************)
EXTENDS Integers, Sequences, FiniteSets, TLC

\* ------------------------------------------------------------------ bounds
MaxJobs == 2          \* jobs in one experiment
MaxDeploys == 1       \* deploy() calls on one orchestrator
MaxNonTerminal == 1   \* non-terminal results or query failures per job and monitor() call
MaxTypeLen == 4       \* length of the machine_type strings of PayloadSpec
MaxAccel == 1         \* largest accelerator_count of PayloadSpec

\* ------------------------------------------------------------- python values
None == "<None>"
Truthy(v) == v # None /\ v # ""
EmptyDict == << >>

\* str.startswith
StartsWith(s, prefix) == Len(s) >= Len(prefix) /\ SubSeq(s, 1, Len(prefix)) = prefix

\* mutant: on a key of both the first dict's value is kept
DictMerge_BaseWins(base, over) == base @@ over

\* {**base, **over}: the keys of both, over's value on a key of both
DictMerge(base, over) == over @@ base

\* d[k] = v on a dict
DictSet(d, k, v) == (k :> v) @@ d

\* ------------------------------------------------------------------ JobConfig
JobConfigRaw(mt, at, ac, env, dn, lb, sa, nw) ==
    [machine_type |-> mt, accelerator_type |-> at, accelerator_count |-> ac,
     container_args |-> <<"--run">>, container_env |-> env, display_name |-> dn,
     labels |-> lb, service_account |-> sa, network |-> nw]

\* JobConfig.__post_init__: whether validation raises ValueError
PostInitRaises(c) ==
    \/ c.machine_type = ""
    \/ c.accelerator_count > 0 /\ c.accelerator_type = ""

\* mutant: a count of 0 is left as it is
PostInit_NoCoercion(c) == c

\* JobConfig.__post_init__: the configuration after a construction that does
\* not raise
PostInit(c) ==
    IF c.accelerator_type # "" /\ c.accelerator_count = 0
    THEN [c EXCEPT !.accelerator_count = 1]
    ELSE c

\* ------------------------------------------------------------------ state
VARIABLES
    experiment_name,   \* config.experiment_name
    bucket_name,       \* config.bucket_name
    config_labels,     \* config.labels
    jobs,              \* config.jobs: sequence of validated JobConfig
    raw_config,        \* the arguments of the JobConfig(...) call of ConfigSpec
    construct,         \* that call's position: "calling", "constructed" or "ValueError"
    deployed_jobs,     \* self.deployed_jobs: display_name -> resource name
    job_statuses,      \* self.job_statuses: display_name -> status string
    dpc,               \* position of the deploy() coroutine
    deploys,           \* number of deploy() calls made
    tasks,             \* the _deploy_job tasks of the current gather, by job index
    running,           \* index of the task that holds the event loop thread, 0 if none
    next_id,           \* platform: the id of the next custom job it creates
    deploy_ret,        \* the value deploy() returned
    mpc,               \* position of the monitor() coroutine
    active_jobs,       \* monitor(): active_jobs
    to_query,          \* monitor(): the part of list(active_jobs) not yet iterated
    completed_in_poll, \* monitor(): completed_in_poll
    quota,             \* platform: non-terminal answers left per job in this monitor()
    rounds,            \* poll rounds started in this monitor()
    sleeps,            \* asyncio.sleep calls made in this monitor()
    round_results,     \* the answers of this round's status queries, by job
    poll_interval,     \* monitor(): the poll_interval argument
    writes,            \* snapshot writes attempted in this monitor()
    snapshot_file,     \* the file at the path the clock's present second names:
                       \* << >> if there is none, or <<its content>>
    snapshot_ok,       \* outcome of the last snapshot write
    monitor_ret,       \* the value monitor() returned
    cancel_call,       \* the last cancel_job call: its argument, request and outcome
    urls_ret           \* the value get_console_urls() returned

configVars == <<experiment_name, bucket_name, config_labels, jobs, raw_config, construct>>
deployVars == <<dpc, deploys, tasks, running, next_id, deploy_ret>>
monitorVars == <<mpc, active_jobs, to_query, completed_in_poll, quota,
                 rounds, sleeps, round_results, poll_interval, writes,
                 snapshot_file, snapshot_ok, monitor_ret>>
callerVars == <<cancel_call, urls_ret>>
vars == <<configVars, deployed_jobs, job_statuses, deployVars, monitorVars, callerVars>>

ImageUri == "gcr.io/p/img"
ProjectId == "p"
Region == "r"
Parent == "projects/p/locations/r"

\* no cancel_job call made yet
NoCancel == [called |-> FALSE, display_name |-> None, request |-> None,
             request_ok |-> FALSE, raised |-> FALSE, ret |-> FALSE, during |-> None]

\* monitor(self, poll_interval: int = 60)
DefaultPollInterval == 60

\* ------------------------------------------------------------------ deploy()
\* mutant: the default name counts the jobs from 0
DisplayName_ZeroBased(js, exp, i) ==
    IF Truthy(js[i].display_name) THEN js[i].display_name
    ELSE exp \o "-job-" \o ToString(i - 1)

\* display_name = job_config.display_name or f"{experiment_name}-job-{i+1}"
\* (i is the 1-based index here, so i = Python's i+1)
DisplayName(js, exp, i) ==
    IF Truthy(js[i].display_name) THEN js[i].display_name
    ELSE exp \o "-job-" \o ToString(i)

\* mutant: the prefix test without the dash
SchedulingStrategy_NoDash(machine_type) ==
    IF StartsWith(machine_type, "a3") THEN "AUTOMATIC" ELSE "STANDARD"

\* the scheduling strategy chosen for a machine type
SchedulingStrategy(machine_type) ==
    IF StartsWith(machine_type, "a3-") THEN "AUTOMATIC" ELSE "STANDARD"

\* the env list built from container_env (a sequence of <<key, value>>)
EnvList(env) == [k \in 1..Len(env) |-> [name |-> env[k][1], value |-> env[k][2]]]

\* mutant: the accelerator count is left out
MachineSpec_NoCount(job_config) ==
    IF job_config.accelerator_type # "" /\ job_config.accelerator_count > 0
    THEN [machine_type |-> job_config.machine_type,
          accelerator_type |-> job_config.accelerator_type]
    ELSE [machine_type |-> job_config.machine_type]

\* machine_spec of the worker pool
MachineSpec(job_config) ==
    IF job_config.accelerator_type # "" /\ job_config.accelerator_count > 0
    THEN [machine_type |-> job_config.machine_type,
          accelerator_type |-> job_config.accelerator_type,
          accelerator_count |-> job_config.accelerator_count]
    ELSE [machine_type |-> job_config.machine_type]

ContainerSpec(job_config) ==
    IF job_config.container_env # << >>
    THEN [image_uri |-> ImageUri, args |-> job_config.container_args,
          env |-> EnvList(job_config.container_env)]
    ELSE [image_uri |-> ImageUri, args |-> job_config.container_args]

WorkerPoolSpec(job_config) ==
    [machine_spec |-> MachineSpec(job_config), replica_count |-> 1,
     container_spec |-> ContainerSpec(job_config)]

\* mutant: the path without the scheme, under "output"
OutputUri_PlainPath(bucket, exp, display_name) ==
    bucket \o "/" \o exp \o "/output/" \o display_name

\* output_uri of _deploy_job
OutputUri(bucket, exp, display_name) ==
    "gs://" \o bucket \o "/" \o exp \o "/vertex_ai_output/" \o display_name

JobSpec(job_config, display_name, bucket, exp) ==
    LET s0 == [worker_pool_specs |-> <<WorkerPoolSpec(job_config)>>]
        s1 == IF Truthy(bucket)
              THEN DictSet(s0, "base_output_directory",
                           [output_uri_prefix |-> OutputUri(bucket, exp, display_name)])
              ELSE s0
        s2 == DictSet(s1, "scheduling",
                      [strategy |-> SchedulingStrategy(job_config.machine_type)])
        s3 == IF Truthy(job_config.service_account)
              THEN DictSet(s2, "service_account", job_config.service_account) ELSE s2
        s4 == IF Truthy(job_config.network)
              THEN DictSet(s3, "network", job_config.network) ELSE s3
    IN s4

\* custom_job_payload of _deploy_job
BuildPayload(job_config, display_name, bucket, exp, glabels) ==
    LET p0 == [display_name |-> display_name,
               job_spec |-> JobSpec(job_config, display_name, bucket, exp)]
        all_labels == DictMerge(glabels, job_config.labels)
    IN IF DOMAIN all_labels # {} THEN DictSet(p0, "labels", all_labels) ELSE p0

NoPayload == EmptyDict
NoTask == [st |-> "none", payload |-> NoPayload, result |-> None]
IsException(result) == result = "Exception"
ResourceName(id) == Parent \o "/customJobs/" \o ToString(id)

\* deploy() up to "await asyncio.gather": one _deploy_job coroutine per job.
\* The caller calls it while no monitor() call is under way; the frame of a
\* monitor() call that has returned, and the value it returned, are gone by
\* then, and the caller may call monitor() again.  The clock has left the
\* second of the last snapshot by then.
DeployCall ==
    /\ dpc \in {"idle", "returned"}
    /\ mpc \in {"idle", "returned"}
    /\ deploys < MaxDeploys
    /\ deploys' = deploys + 1
    /\ dpc' = "gather"
    /\ tasks' = [i \in 1..Len(jobs) |-> [NoTask EXCEPT !.st = "ready"]]
    /\ running' = 0
    /\ mpc' = "idle"
    /\ active_jobs' = {}
    /\ to_query' = {}
    /\ completed_in_poll' = {}
    /\ quota' = EmptyDict
    /\ rounds' = 0
    /\ sleeps' = 0
    /\ round_results' = EmptyDict
    /\ poll_interval' = DefaultPollInterval
    /\ writes' = 0
    /\ snapshot_file' = << >>
    /\ snapshot_ok' = TRUE
    /\ monitor_ret' = EmptyDict
    /\ cancel_call' = NoCancel
    /\ urls_ret' = EmptyDict
    /\ UNCHANGED <<configVars, deployed_jobs, job_statuses, next_id, deploy_ret>>

\* the event loop runs the next ready task: it builds the payload and enters
\* the blocking create_custom_job call without reaching an await
TaskStart(i) ==
    /\ dpc = "gather"
    /\ running = 0
    /\ i \in 1..Len(tasks)
    /\ tasks[i].st = "ready"
    /\ \A j \in 1..(i - 1) : tasks[j].st # "ready"
    /\ running' = i
    /\ tasks' = [tasks EXCEPT ![i] =
           [st |-> "calling",
            payload |-> BuildPayload(jobs[i], DisplayName(jobs, experiment_name, i),
                                     bucket_name, experiment_name, config_labels),
            result |-> None]]
    /\ UNCHANGED <<configVars, callerVars, deployed_jobs, job_statuses, dpc, deploys, next_id,
                   deploy_ret, monitorVars>>

\* mutant: a task whose create call raised makes the call again
TaskAfterCreate_RetriesFailure(ok) == IF ok THEN "done" ELSE "ready"

\* the task after its create call: "return response.name" and "raise e" both
\* end the coroutine
TaskAfterCreate(ok) == "done"

\* mutant: the task records its own outcome as soon as its call is over
TaskStatuses_WritesOwn(statuses, display_name, ok) ==
    (display_name :> IF ok THEN "SUBMITTED" ELSE "DEPLOYMENT_FAILED") @@ statuses

\* job_statuses after a task's create call: _deploy_job writes neither map
TaskStatuses(statuses, display_name, ok) == statuses

\* create_custom_job returns response.name, or raises and _deploy_job re-raises;
\* either way the coroutine ends and the task gives the thread back
CreateReturn(i, ok) ==
    /\ dpc = "gather"
    /\ running = i
    /\ i \in 1..Len(tasks)
    /\ tasks[i].st = "calling"
    /\ tasks' = [tasks EXCEPT ![i].st = TaskAfterCreate(ok),
                              ![i].result = IF ok THEN ResourceName(next_id) ELSE "Exception"]
    /\ next_id' = IF ok THEN next_id + 1 ELSE next_id
    /\ running' = 0
    /\ job_statuses' = TaskStatuses(job_statuses, DisplayName(jobs, experiment_name, i), ok)
    /\ UNCHANGED <<configVars, callerVars, deployed_jobs, dpc, deploys, deploy_ret,
                   monitorVars>>

\* the loop of deploy() over results[k..]: the maps after it
RECURSIVE CollectResults(_, _, _, _, _)
CollectResults(results, js, exp, k, maps) ==
    IF k > Len(results) THEN maps
    ELSE LET display_name == DisplayName(js, exp, k)
             next == IF IsException(results[k])
                     THEN [deployed |-> maps.deployed,
                           statuses |-> DictSet(maps.statuses, display_name, "DEPLOYMENT_FAILED")]
                     ELSE [deployed |-> DictSet(maps.deployed, display_name, results[k]),
                           statuses |-> DictSet(maps.statuses, display_name, "SUBMITTED")]
         IN CollectResults(results, js, exp, k + 1, next)

\* gather(..., return_exceptions=True) is done: deploy() resumes, records every
\* result and returns self.deployed_jobs
DeployReturn ==
    /\ dpc = "gather"
    /\ running = 0
    /\ \A i \in 1..Len(tasks) : tasks[i].st = "done"
    /\ LET results == [i \in 1..Len(tasks) |-> tasks[i].result]
           maps == CollectResults(results, jobs, experiment_name, 1,
                                  [deployed |-> deployed_jobs, statuses |-> job_statuses])
       IN /\ deployed_jobs' = maps.deployed
          /\ job_statuses' = maps.statuses
          /\ deploy_ret' = maps.deployed
    /\ dpc' = "returned"
    /\ UNCHANGED <<configVars, callerVars, deploys, tasks, running, next_id, monitorVars>>

\* ------------------------------------------------------------------ monitor()
\* the platform's job states the model draws answers from, and the outcome of
\* a get_custom_job call that raises
TerminalStates == {"JOB_STATE_SUCCEEDED", "JOB_STATE_FAILED", "JOB_STATE_CANCELLED",
                   "JOB_STATE_EXPIRED", "JOB_STATE_CANCELLING"}
JobStates == TerminalStates \cup {"JOB_STATE_RUNNING", "JOB_STATE_UPDATING"}
QueryRaises == "raises"
QueryResults == JobStates \cup {QueryRaises}

\* the counters rounds and sleeps stop counting at MaxRounds, which no
\* monitor() call reaches while the platform keeps within its quota
MaxRounds == MaxNonTerminal + 2
Count(c) == IF c < MaxRounds THEN c + 1 ELSE c

\* mutant: UPDATING is taken for a final state
IsCompleted_WithUpdating(status) ==
    status \in {"JOB_STATE_SUCCEEDED", "JOB_STATE_FAILED", "JOB_STATE_CANCELLED",
                "JOB_STATE_EXPIRED", "JOB_STATE_CANCELLING", "JOB_STATE_UPDATING"}

\* the test "status in [...]" that puts a job into completed_in_poll
IsCompleted(status) ==
    status \in {"JOB_STATE_SUCCEEDED", "JOB_STATE_FAILED", "JOB_STATE_CANCELLED",
                "JOB_STATE_EXPIRED", "JOB_STATE_CANCELLING"}

\* mutant: a STATUS_ERROR entry is kept once recorded
QueryStatuses_StickyError(statuses, display_name, r) ==
    IF r = QueryRaises THEN (display_name :> "STATUS_ERROR") @@ statuses
    ELSE IF display_name \in DOMAIN statuses /\ statuses[display_name] = "STATUS_ERROR"
         THEN statuses
    ELSE (display_name :> r) @@ statuses

\* job_statuses after the query of display_name answered r (try / except)
QueryStatuses(statuses, display_name, r) ==
    IF r = QueryRaises THEN DictSet(statuses, display_name, "STATUS_ERROR")
    ELSE DictSet(statuses, display_name, r)

\* mutant: a query that raises completes the job
QueryCompleted_ErrorCompletes(completed, display_name, r) ==
    IF r = QueryRaises \/ r \in TerminalStates THEN completed \cup {display_name}
    ELSE completed

\* completed_in_poll after the query of display_name answered r
QueryCompleted(completed, display_name, r) ==
    IF r # QueryRaises /\ IsCompleted(r) THEN completed \cup {display_name}
    ELSE completed

\* mutant: the for loop does not move on from a job that is still running
RestOfRound_Requeries(pending, display_name, r) ==
    IF r \in TerminalStates THEN pending \ {display_name} ELSE pending

\* mutant: the try / except is around the for loop, a failure ends the round
RestOfRound_FailureEndsRound(pending, display_name, r) ==
    IF r = QueryRaises THEN {} ELSE pending \ {display_name}

\* what is left of list(active_jobs) after the iteration for display_name: the
\* try / except is inside the for loop, so the loop goes on after a failure
RestOfRound(pending, display_name, r) == pending \ {display_name}

\* mutant: every round goes over all deployed jobs
RoundQueries_AllDeployed(active, deployed) == DOMAIN deployed

\* the jobs a round's for loop goes over: list(active_jobs)
RoundQueries(active, deployed) == active

\* mutant: completed jobs are not removed
RemoveCompleted_Keeps(active, completed) == active

\* active_jobs -= completed_in_poll
RemoveCompleted(active, completed) == active \ completed

\* mutant: a job whose last query failed is counted as active
SnapshotInactive_NoError == {"JOB_STATE_SUCCEEDED", "JOB_STATE_FAILED", "JOB_STATE_CANCELLED",
                             "JOB_STATE_EXPIRED", "JOB_STATE_CANCELLING"}

\* the statuses _save_status_snapshot does not count as active
SnapshotInactive == {"JOB_STATE_SUCCEEDED", "JOB_STATE_FAILED", "JOB_STATE_CANCELLED",
                     "JOB_STATE_EXPIRED", "JOB_STATE_CANCELLING", "STATUS_ERROR"}

\* the snapshot document (the two timestamps left out)
Snapshot(exp, statuses, deployed) ==
    [experiment_name |-> exp,
     job_statuses |-> statuses,
     deployed_jobs |-> deployed,
     total_jobs |-> Cardinality(DOMAIN deployed),
     active_jobs_count |->
         Cardinality({n \in DOMAIN statuses : statuses[n] \notin SnapshotInactive})]

\* mutant: the write error is not caught
SnapshotRaises_Propagates(ok) == ~ok

\* whether _save_status_snapshot raises when its write fails: "except Exception"
\* logs and swallows
SnapshotRaises(ok) == FALSE

\* mutant: monitor() gives up after one round
SleepsAfterRound_Never(active) == FALSE

\* mutant: monitor() sleeps after every round
SleepsAfterRound_Always(active) == TRUE

\* "if active_jobs:" after the snapshot decides between the sleep and the return
SleepsAfterRound(active) == active # {}

\* mutant: with nothing deployed monitor() skips the loop and returns self.job_statuses
EmptyMonitorResult_JobStatuses(statuses) == statuses

\* what monitor() returns when deployed_jobs is empty: "return {}"
EmptyMonitorResult(statuses) == EmptyDict

\* monitor() up to the first iteration of the for loop.  The caller calls it
\* while no deploy() is under way, once before the first deploy() or after a
\* deploy().
MonitorCallWith(interval) ==
    /\ mpc = "idle"
    /\ dpc \in {"idle", "returned"}
    /\ poll_interval' = interval
    /\ writes' = 0
    /\ sleeps' = 0
    /\ completed_in_poll' = {}
    /\ round_results' = EmptyDict
    /\ IF DOMAIN deployed_jobs = {}
       THEN /\ mpc' = "returned"
            /\ monitor_ret' = EmptyMonitorResult(job_statuses)
            /\ rounds' = 0
            /\ UNCHANGED <<active_jobs, to_query, quota>>
       ELSE /\ mpc' = "poll"
            /\ active_jobs' = DOMAIN deployed_jobs
            /\ to_query' = RoundQueries(DOMAIN deployed_jobs, deployed_jobs)
            /\ rounds' = 1
            /\ quota' = [n \in DOMAIN deployed_jobs |-> MaxNonTerminal]
            /\ UNCHANGED monitor_ret
    /\ UNCHANGED <<configVars, callerVars, deployed_jobs, job_statuses, deployVars,
                   snapshot_file, snapshot_ok>>

\* monitor() called without a poll_interval
MonitorCall == MonitorCallWith(DefaultPollInterval)

\* one iteration of the for loop: get_custom_job for one active job answers r
\* (the platform answers a non-terminal state or fails only within its quota)
MonitorQuery(display_name, r) ==
    /\ mpc = "poll"
    /\ display_name \in to_query
    /\ r \in QueryResults
    /\ r \notin TerminalStates => quota[display_name] > 0
    /\ quota' = IF r \in TerminalStates THEN quota
                ELSE [quota EXCEPT ![display_name] = @ - 1]
    /\ job_statuses' = QueryStatuses(job_statuses, display_name, r)
    /\ completed_in_poll' = QueryCompleted(completed_in_poll, display_name, r)
    /\ round_results' = DictSet(round_results, display_name, r)
    /\ to_query' = RestOfRound(to_query, display_name, r)
    /\ UNCHANGED <<configVars, callerVars, deployed_jobs, deployVars, mpc, active_jobs,
                   rounds, sleeps, poll_interval, writes, snapshot_file, snapshot_ok,
                   monitor_ret>>

\* the end of a round: active_jobs -= completed_in_poll, the snapshot (whose
\* write succeeds, replacing whatever file has the name, or fails in makedirs
\* or open, leaving the files as they were), then the sleep or the return of
\* self.job_statuses
MonitorEndRound(ok) ==
    /\ mpc = "poll"
    /\ to_query = {}
    /\ LET active == RemoveCompleted(active_jobs, completed_in_poll)
       IN /\ active_jobs' = active
          /\ snapshot_ok' = ok
          /\ writes' = Count(writes)
          /\ snapshot_file' = IF ok THEN <<Snapshot(experiment_name, job_statuses, deployed_jobs)>>
                              ELSE snapshot_file
          /\ IF SnapshotRaises(ok)
             THEN mpc' = "raised" /\ UNCHANGED <<sleeps, monitor_ret>>
             ELSE IF SleepsAfterRound(active)
             THEN mpc' = "sleep" /\ sleeps' = Count(sleeps) /\ UNCHANGED monitor_ret
             ELSE mpc' = "returned" /\ monitor_ret' = job_statuses /\ UNCHANGED sleeps
    /\ UNCHANGED <<configVars, callerVars, deployed_jobs, job_statuses, deployVars, to_query,
                   completed_in_poll, quota, rounds, round_results, poll_interval>>

\* whether the clock's second is sure to have changed during asyncio.sleep(interval)
ClockMoves(interval) == interval >= 1

\* asyncio.sleep is over: the while test and the next round's first lines
MonitorWake ==
    /\ mpc = "sleep"
    /\ IF active_jobs # {}
       THEN /\ mpc' = "poll"
            /\ rounds' = Count(rounds)
            /\ completed_in_poll' = {}
            /\ round_results' = EmptyDict
            /\ to_query' = RoundQueries(active_jobs, deployed_jobs)
            /\ UNCHANGED monitor_ret
       ELSE /\ mpc' = "returned"
            /\ monitor_ret' = job_statuses
            /\ UNCHANGED <<rounds, completed_in_poll, round_results, to_query>>
    /\ snapshot_file' = IF ClockMoves(poll_interval) THEN << >> ELSE snapshot_file
    /\ UNCHANGED <<configVars, callerVars, deployed_jobs, job_statuses, deployVars,
                   active_jobs, quota, sleeps, poll_interval, writes, snapshot_ok>>

\* the clock goes on to its next second, for which strftime('%Y%m%d_%H%M%S')
\* gives a file name no snapshot has yet
ClockTick ==
    /\ snapshot_file # << >>
    /\ snapshot_file' = << >>
    /\ UNCHANGED <<configVars, callerVars, deployed_jobs, job_statuses, deployVars,
                   mpc, active_jobs, to_query, completed_in_poll, quota, rounds, sleeps,
                   round_results, poll_interval, writes, snapshot_ok, monitor_ret>>

\* ------------------------------------------------------------ cancel_job()
\* mutant: a cancel request that raises is reported as a success
CancelReturn_IgnoresFailure(found, ok) == found

\* the value cancel_job returns: False for a name not in deployed_jobs, else
\* True when cancel_custom_job returned and False when it raised
CancelReturn(found, ok) == found /\ ok

\* whether cancel_job raises: the lookup is guarded by the membership test and
\* the request is inside try / except Exception
CancelRaises(found, ok) == FALSE

\* mutant: cancel_job records the cancellation in job_statuses itself
CancelStatuses_MarksCancelling(statuses, display_name, found) ==
    IF found THEN (display_name :> "JOB_STATE_CANCELLING") @@ statuses ELSE statuses

\* job_statuses after cancel_job(display_name): it is not written
CancelStatuses(statuses, display_name, found) == statuses

\* cancel_job(display_name), a plain method that runs to its return; the caller
\* calls it while neither a deploy() nor a poll round of monitor() is on the
\* thread.  ok is the outcome of cancel_custom_job, if it is called.
CancelJob(display_name, ok) ==
    /\ dpc \in {"idle", "returned"}
    /\ mpc # "poll"
    /\ LET found == display_name \in DOMAIN deployed_jobs
       IN /\ cancel_call' = [called |-> TRUE,
                             display_name |-> display_name,
                             request |-> IF found THEN deployed_jobs[display_name] ELSE None,
                             request_ok |-> found /\ ok,
                             raised |-> CancelRaises(found, ok),
                             ret |-> CancelReturn(found, ok),
                             during |-> mpc]
          /\ job_statuses' = CancelStatuses(job_statuses, display_name, found)
    /\ UNCHANGED <<configVars, deployed_jobs, deployVars, monitorVars, urls_ret>>

\* ------------------------------------------------------ get_console_urls()
\* the position of the last "/" among the first k characters of s, 0 if none
RECURSIVE LastSlash(_, _)
LastSlash(s, k) ==
    IF k = 0 THEN 0
    ELSE IF SubSeq(s, k, k) = "/" THEN k
    ELSE LastSlash(s, k - 1)

\* resource_name.split('/')[-1]
JobIdPart(resource_name) ==
    SubSeq(resource_name, LastSlash(resource_name, Len(resource_name)) + 1, Len(resource_name))

MonitorUrl(job_id_part) ==
    "https://console.cloud.google.com/vertex-ai/training/" \o job_id_part
        \o "/locations/" \o Region \o "?project=" \o ProjectId

LogUrl(job_id_part) ==
    "https://console.cloud.google.com/logs/query;query="
        \o "resource.type%3D%22aiplatform.googleapis.com%2FCustomJob%22%20"
        \o "AND%20resource.labels.custom_job_id%3D%22" \o job_id_part \o "%22?"
        \o "project=" \o ProjectId \o "&region=" \o Region

\* the dict get_console_urls builds from deployed_jobs
ConsoleUrls(deployed) ==
    [display_name \in DOMAIN deployed |->
        [monitor |-> MonitorUrl(JobIdPart(deployed[display_name])),
         logs |-> LogUrl(JobIdPart(deployed[display_name]))]]

\* get_console_urls(), a plain method that runs to its return; the caller
\* calls it while neither a deploy() nor a poll round of monitor() is on the
\* thread
GetConsoleUrls ==
    /\ dpc \in {"idle", "returned"}
    /\ mpc # "poll"
    /\ urls_ret' = ConsoleUrls(deployed_jobs)
    /\ UNCHANGED <<configVars, deployed_jobs, job_statuses, deployVars, monitorVars,
                   cancel_call>>

\* ------------------------------------------------------------ specifications
ExperimentName == "exp"
DefaultJob(mt, dn) == JobConfigRaw(mt, "", 0, << >>, dn, EmptyDict, None, None)

\* display names of Spec: unset, or a name of the caller's, which is also the
\* default name of a second job
DisplayNames == {None, ExperimentName \o "-job-2"}

MachineTypeOf(k) == IF k % 2 = 1 THEN "a3-highgpu-8g" ELSE "a2-highgpu-1g"

\* the job lists of Spec: job k is an H100 job when k is odd
JobLists ==
    UNION {{[k \in 1..n |-> DefaultJob(MachineTypeOf(k), dns[k])] : dns \in [1..n -> DisplayNames]}
           : n \in 1..MaxJobs}

InitOrchestrator ==
    /\ deployed_jobs = EmptyDict
    /\ job_statuses = EmptyDict
    /\ dpc = "idle"
    /\ deploys = 0
    /\ tasks = << >>
    /\ running = 0
    /\ next_id = 1
    /\ deploy_ret = EmptyDict
    /\ mpc = "idle"
    /\ active_jobs = {}
    /\ to_query = {}
    /\ completed_in_poll = {}
    /\ quota = EmptyDict
    /\ rounds = 0
    /\ sleeps = 0
    /\ round_results = EmptyDict
    /\ poll_interval = DefaultPollInterval
    /\ writes = 0
    /\ snapshot_file = << >>
    /\ snapshot_ok = TRUE
    /\ monitor_ret = EmptyDict
    /\ cancel_call = NoCancel
    /\ urls_ret = EmptyDict

Init ==
    /\ experiment_name = ExperimentName
    /\ bucket_name = None
    /\ config_labels = EmptyDict
    /\ jobs \in JobLists
    /\ \A i \in 1..Len(jobs) : ~PostInitRaises(jobs[i]) /\ PostInit(jobs[i]) = jobs[i]
    /\ raw_config = None
    /\ construct = "constructed"
    /\ InitOrchestrator

DeployNext ==
    \/ DeployCall
    \/ \E i \in 1..MaxJobs + 1 : TaskStart(i)
    \/ \E i \in 1..MaxJobs + 1, ok \in BOOLEAN : CreateReturn(i, ok)
    \/ DeployReturn

MonitorStep ==
    \/ \E n \in to_query, r \in QueryResults : MonitorQuery(n, r)
    \/ \E ok \in BOOLEAN : MonitorEndRound(ok)
    \/ MonitorWake

Next == DeployNext \/ MonitorCall \/ MonitorStep

Spec == Init /\ [][Next]_vars

\* ---- CallerSpec: Spec with a caller that also passes poll_interval = 0 to
\* monitor(), under a clock that may or may not reach its next second between
\* two rounds, and that calls cancel_job with the display names of its jobs
\* and get_console_urls
CallerNext ==
    \/ Next
    \/ MonitorCallWith(0)
    \/ ClockTick
    \/ \E i \in 1..Len(jobs), ok \in BOOLEAN :
           CancelJob(DisplayName(jobs, experiment_name, i), ok)
    \/ GetConsoleUrls

CallerSpec == Init /\ [][CallerNext]_vars

\* ---- DeploySpec: deploy() alone, over job lists whose display names are
\* unset, empty, or a name of the caller's that is also the default name of a
\* second job
DeployNames == {None, "", ExperimentName \o "-job-2"}

DeployJobLists ==
    UNION {{[k \in 1..n |-> DefaultJob(MachineTypeOf(k), dns[k])] : dns \in [1..n -> DeployNames]}
           : n \in 1..MaxJobs}

InitDeploy ==
    /\ experiment_name = ExperimentName
    /\ bucket_name = None
    /\ config_labels = EmptyDict
    /\ jobs \in DeployJobLists
    /\ \A i \in 1..Len(jobs) : ~PostInitRaises(jobs[i]) /\ PostInit(jobs[i]) = jobs[i]
    /\ raw_config = None
    /\ construct = "constructed"
    /\ InitOrchestrator

DeploySpec == InitDeploy /\ [][DeployNext]_vars

\* ---- PayloadSpec: deploy() of one job over a wide range of configurations
Alphabet == {"a", "3", "-", "2"}

\* the strings over Alphabet of length n
RECURSIVE StringsOfLen(_)
StringsOfLen(n) ==
    IF n = 0 THEN {""} ELSE {s \o c : s \in StringsOfLen(n - 1), c \in Alphabet}

TypeStrings == UNION {StringsOfLen(n) : n \in 0..MaxTypeLen}

\* what the caller passes to JobConfig(...)
RawJobConfigs ==
    {DefaultJob(mt, None) : mt \in TypeStrings}
    \cup {JobConfigRaw(mt, at, ac, env, dn, lb, sa, nw) :
            mt \in {"a3-highgpu-8g", "a2-highgpu-1g"},
            at \in {"", "NVIDIA_H100_80GB"},
            ac \in -1..MaxAccel,
            env \in {<< >>, << <<"MODE", "fast">> >>},
            dn \in {None, "train"},
            lb \in {EmptyDict, [team |-> "job"]},
            sa \in {None, "sa@p"},
            nw \in {None, "vpc"}}

InitPayload ==
    /\ experiment_name = ExperimentName
    /\ bucket_name \in {None, "", "bkt"}
    /\ config_labels \in {EmptyDict, [team |-> "exp"], [owner |-> "me"]}
    /\ \E raw \in RawJobConfigs :
           /\ ~PostInitRaises(raw)
           /\ jobs = <<PostInit(raw)>>
    /\ raw_config = None
    /\ construct = "constructed"
    /\ InitOrchestrator

PayloadSpec == InitPayload /\ [][DeployNext]_vars

\* ---- ConfigSpec: the construction of one JobConfig from the caller's arguments
InitConfig ==
    /\ experiment_name = ExperimentName
    /\ bucket_name = None
    /\ config_labels = EmptyDict
    /\ jobs = << >>
    /\ raw_config \in RawJobConfigs
    /\ construct = "calling"
    /\ InitOrchestrator

\* JobConfig(...): the dataclass __init__ stores the arguments and runs
\* __post_init__, which raises ValueError or returns; the caller puts the
\* object it gets into the experiment's job list
JobConfigInit ==
    /\ construct = "calling"
    /\ IF PostInitRaises(raw_config)
       THEN construct' = "ValueError" /\ jobs' = jobs
       ELSE construct' = "constructed" /\ jobs' = <<PostInit(raw_config)>>
    /\ UNCHANGED <<experiment_name, bucket_name, config_labels, raw_config,
                   deployed_jobs, job_statuses, deployVars, monitorVars, callerVars>>

ConfigSpec == InitConfig /\ [][JobConfigInit]_vars

\* ------------------------------------------------------------------ claims
Built(i) == i \in 1..Len(tasks) /\ tasks[i].st \in {"calling", "done"}

\* the first three characters of a string are a, 3, -
HasH100Prefix(mt) ==
    /\ Len(mt) >= 3
    /\ SubSeq(mt, 1, 1) = "a" /\ SubSeq(mt, 2, 2) = "3" /\ SubSeq(mt, 3, 3) = "-"

\* C1: every payload _deploy_job has built carries a scheduling strategy, which
\* is AUTOMATIC or STANDARD, and it is AUTOMATIC exactly when the job's
\* machine_type starts with "a3-".
C1_SchedulingTotal ==
    \A i \in 1..Len(tasks) :
        Built(i) =>
            /\ "scheduling" \in DOMAIN tasks[i].payload.job_spec
            /\ "strategy" \in DOMAIN tasks[i].payload.job_spec.scheduling
            /\ tasks[i].payload.job_spec.scheduling.strategy \in {"AUTOMATIC", "STANDARD"}
            /\ tasks[i].payload.job_spec.scheduling.strategy = "AUTOMATIC"
                   <=> HasH100Prefix(jobs[i].machine_type)

\* a payload built with AUTOMATIC for a type longer than the bare prefix
C1_Witness ==
    \E i \in 1..Len(tasks) :
        /\ Built(i)
        /\ tasks[i].payload.job_spec.scheduling.strategy = "AUTOMATIC"
        /\ Len(jobs[i].machine_type) = 4

\* the display name of job i and the outcome of its create call in the gather
\* that has just completed
NameOf(i) == DisplayName(jobs, experiment_name, i)
CreateFailed(i) == tasks[i].result = "Exception"
DeployReturns == dpc = "gather" /\ dpc' = "returned"

\* C2: when deploy() returns, the map it returns holds exactly the jobs whose
\* create call succeeded, each under its display name with its resource id;
\* every failed job has status DEPLOYMENT_FAILED and is absent from
\* deployed_jobs, every successful job has status SUBMITTED.
C2_PartialFailureIsolation ==
    [][DeployReturns =>
        /\ DOMAIN deploy_ret' = {NameOf(i) : i \in {k \in 1..Len(tasks) : ~CreateFailed(k)}}
        /\ \A i \in 1..Len(tasks) :
              IF CreateFailed(i)
              THEN /\ job_statuses'[NameOf(i)] = "DEPLOYMENT_FAILED"
                   /\ NameOf(i) \notin DOMAIN deployed_jobs'
              ELSE /\ deploy_ret'[NameOf(i)] = tasks[i].result
                   /\ job_statuses'[NameOf(i)] = "SUBMITTED"]_vars

\* ---- steps of monitor(), recognised by what they change
MonitorRunning == mpc \in {"poll", "sleep"}
MonitorReturns == MonitorRunning /\ mpc' = "returned"
QueryStep == mpc = "poll" /\ DOMAIN round_results' # DOMAIN round_results
Queried == CHOOSE n \in DOMAIN round_results' : n \notin DOMAIN round_results
EndRoundStep == mpc = "poll" /\ mpc' # "poll"
WakeStep == mpc = "sleep" /\ mpc' = "poll"

FairSpec == Spec /\ WF_vars(MonitorStep)

\* C3: a monitor() call whose jobs all come to answer a terminal status (the
\* platform's quota of other answers is finite) returns; and it returns only
\* when every deployed job has answered a terminal status, polling again after
\* every sleep until then.
C3_MonitorTerminates ==
    /\ MonitorRunning ~> (mpc = "returned")
    /\ [][/\ MonitorReturns =>
                /\ active_jobs' = {}
                /\ \A n \in DOMAIN deployed_jobs : job_statuses'[n] \in TerminalStates
          /\ (mpc = "sleep" /\ mpc' # "sleep") => (mpc' = "poll" /\ to_query' # {})]_vars

\* a monitor() call that needed a second round has returned
C3_Witness == mpc = "returned" /\ rounds = 2 /\ DOMAIN deployed_jobs # {}

\* C4 as stated: when monitor() returns after N >= 1 jobs were deployed, the
\* returned map has exactly N entries, one per key of deployed_jobs, all terminal.
C4_ReturnsOnlyDeployed ==
    [][MonitorReturns =>
        /\ DOMAIN monitor_ret' = DOMAIN deployed_jobs
        /\ \A n \in DOMAIN monitor_ret' : monitor_ret'[n] \in TerminalStates]_vars

\* C4 amended: when monitor() returns after N >= 1 jobs were deployed, the
\* returned map is job_statuses: it has one entry with a terminal status per key
\* of deployed_jobs, and every other entry of it is the DEPLOYMENT_FAILED
\* entry of a job whose submission failed.
C4_ReturnsJobStatuses ==
    [][MonitorReturns =>
        /\ monitor_ret' = job_statuses'
        /\ DOMAIN deployed_jobs \subseteq DOMAIN monitor_ret'
        /\ \A n \in DOMAIN deployed_jobs : monitor_ret'[n] \in TerminalStates
        /\ \A n \in DOMAIN monitor_ret' \ DOMAIN deployed_jobs :
              /\ monitor_ret'[n] = "DEPLOYMENT_FAILED"
              /\ \E i \in 1..Len(jobs) : NameOf(i) = n]_vars

\* monitor() has returned a map with a DEPLOYMENT_FAILED entry beside a polled one
C4_Witness ==
    /\ mpc = "returned"
    /\ rounds >= 1
    /\ \E n \in DOMAIN monitor_ret : monitor_ret[n] = "DEPLOYMENT_FAILED"
    /\ \E n \in DOMAIN monitor_ret : monitor_ret[n] \in TerminalStates

\* C5: a query that raises records STATUS_ERROR and does not complete the job,
\* which is still active after the round (so monitor() sleeps, not returns) and
\* is in the next round's queries; a query that answers records its answer over
\* whatever was recorded, so no STATUS_ERROR is left when monitor() returns.
C5_PollErrorRetried ==
    [][/\ QueryStep =>
            IF round_results'[Queried] = QueryRaises
            THEN /\ job_statuses'[Queried] = "STATUS_ERROR"
                 /\ Queried \notin completed_in_poll'
                 /\ Queried \in active_jobs'
            ELSE job_statuses'[Queried] = round_results'[Queried]
       /\ EndRoundStep =>
            \A n \in DOMAIN round_results :
                round_results[n] = QueryRaises => (n \in active_jobs' /\ mpc' = "sleep")
       /\ WakeStep => active_jobs \subseteq to_query'
       /\ MonitorReturns =>
            \A n \in DOMAIN deployed_jobs :
                /\ monitor_ret'[n] # "STATUS_ERROR"
                /\ n \in DOMAIN round_results => monitor_ret'[n] = round_results[n]]_vars

\* round 2: a job whose round-1 query raised still has STATUS_ERROR recorded and
\* is among the queries of round 2, while another job that stayed active after
\* round 1 has been queried again and has its round-2 answer recorded
C5_Witness ==
    /\ mpc = "poll"
    /\ rounds = 2
    /\ \E n \in DOMAIN round_results, m \in to_query :
          /\ quota[n] = MaxNonTerminal - 1
          /\ round_results[n] = "JOB_STATE_SUCCEEDED"
          /\ job_statuses[n] = "JOB_STATE_SUCCEEDED"
          /\ job_statuses[m] = "STATUS_ERROR"

\* C6: a query that raises for one job leaves every other job's job_statuses
\* entry, the active set, completed_in_poll and deployed_jobs as they were, and
\* the jobs still to be queried in the round stay to be queried; a round ends
\* only when every job active in it has been queried.
C6_PollErrorIsolated ==
    [][/\ (QueryStep /\ round_results'[Queried] = QueryRaises) =>
            /\ \A m \in DOMAIN job_statuses \ {Queried} :
                  m \in DOMAIN job_statuses' /\ job_statuses'[m] = job_statuses[m]
            /\ DOMAIN job_statuses' = DOMAIN job_statuses \cup {Queried}
            /\ active_jobs' = active_jobs
            /\ completed_in_poll' = completed_in_poll
            /\ deployed_jobs' = deployed_jobs
            /\ to_query' = to_query \ {Queried}
            /\ mpc' = "poll"
       /\ EndRoundStep => DOMAIN round_results = active_jobs]_vars

\* in one round a query has raised and another job's query has answered, each
\* recorded for its own job
C6_Witness ==
    \E n, m \in DOMAIN round_results :
        /\ n # m
        /\ round_results[n] = QueryRaises
        /\ job_statuses[n] = "STATUS_ERROR"
        /\ round_results[m] \in JobStates
        /\ job_statuses[m] = round_results[m]

\* C7: the end of a round does the same to monitor() whether the snapshot
\* write succeeds or fails: it never raises, job_statuses is untouched, the
\* active set loses the completed jobs, and monitor() sleeps or returns
\* job_statuses as the active set alone decides; so the queries, the rounds and
\* the returned map do not depend on the outcomes of the snapshot writes.
C7_SnapshotFailureSwallowed ==
    [][/\ mpc' # "raised"
       /\ EndRoundStep =>
            /\ job_statuses' = job_statuses
            /\ deployed_jobs' = deployed_jobs
            /\ active_jobs' = active_jobs \ completed_in_poll
            /\ rounds' = rounds
            /\ quota' = quota
            /\ IF active_jobs' = {}
               THEN mpc' = "returned" /\ monitor_ret' = job_statuses /\ sleeps' = sleeps
               ELSE mpc' = "sleep" /\ sleeps' = sleeps + 1]_vars

\* monitor() has gone on to a second round after a failed snapshot write, and
\* has returned after another failed write
C7_Witness ==
    /\ mpc = "returned"
    /\ rounds = 2
    /\ ~snapshot_ok
    /\ snapshot_file = << >>
    /\ \A n \in DOMAIN deployed_jobs : monitor_ret[n] \in TerminalStates

\* the create calls of the current gather that have started and not returned
InFlight == {j \in 1..Len(tasks) : tasks[j].st = "calling"}
CreateStarts(i) == i \in 1..Len(tasks) /\ tasks[i].st = "ready" /\ tasks'[i].st = "calling"

\* C8: deploy() submits concurrently: the create call of every job after the
\* first starts while the create call of another job has started and not yet
\* returned; and every job's create call is made whatever the other calls'
\* outcomes.
C8_ConcurrentSubmission ==
    [][/\ \A i \in 2..MaxJobs + 1 : CreateStarts(i) => InFlight # {}
       /\ DeployReturns => \A i \in 1..Len(tasks) : tasks[i].st = "done"]_vars

\* C9: at the end of a round a job leaves the active set exactly when the
\* status its query returned in that round is SUCCEEDED, FAILED, CANCELLED,
\* EXPIRED or CANCELLING; UPDATING, any other status and a failed query leave
\* it active.
C9_TerminalLeavesActive ==
    [][EndRoundStep =>
        /\ active_jobs' \subseteq active_jobs
        /\ \A n \in active_jobs :
              n \notin active_jobs' <=>
                  round_results[n] \in {"JOB_STATE_SUCCEEDED", "JOB_STATE_FAILED",
                                        "JOB_STATE_CANCELLED", "JOB_STATE_EXPIRED",
                                        "JOB_STATE_CANCELLING"}]_vars

\* after a round, a job that answered UPDATING is still active while another
\* one, which answered CANCELLING, has left
C9_Witness ==
    /\ mpc = "sleep"
    /\ \E n \in active_jobs : round_results[n] = "JOB_STATE_UPDATING"
    /\ \E m \in DOMAIN round_results \ active_jobs : round_results[m] = "JOB_STATE_CANCELLING"

\* C10: after a round monitor() sleeps exactly when the active set is not
\* empty and returns exactly when it is; so when it returns it has slept once
\* less than it has polled, and when every job answers a terminal status in
\* round 1 it returns after that round without a sleep.
C10_SleepsBetweenRounds ==
    [][/\ EndRoundStep =>
            /\ (mpc' = "sleep" /\ sleeps' = sleeps + 1) <=> active_jobs' # {}
            /\ (mpc' = "returned" /\ sleeps' = sleeps) <=> active_jobs' = {}
            /\ (rounds = 1 /\ \A n \in active_jobs : round_results[n] \in TerminalStates)
                  => (mpc' = "returned" /\ rounds' = 1 /\ sleeps' = 0)
       /\ WakeStep => rounds' = rounds + 1
       /\ MonitorReturns => (mpc = "poll" /\ sleeps' = rounds' - 1)]_vars

\* both deployed jobs answered SUCCEEDED at once: one round, no sleep
C10_Witness ==
    /\ mpc = "returned"
    /\ rounds = 1
    /\ sleeps = 0
    /\ Cardinality(DOMAIN deployed_jobs) = 2
    /\ \A n \in DOMAIN deployed_jobs : monitor_ret[n] = "JOB_STATE_SUCCEEDED"

\* ---- the call of monitor(), recognised by what it changes
MonitorCalled == mpc = "idle" /\ mpc' # "idle"

\* C11: monitor() called while deployed_jobs is empty returns the empty map at
\* once: no status query is made, no snapshot is written, it does not sleep,
\* and job_statuses is left as it was.
C11_EmptyMonitorReturns ==
    [][(MonitorCalled /\ DOMAIN deployed_jobs = {}) =>
        /\ mpc' = "returned"
        /\ DOMAIN monitor_ret' = {}
        /\ job_statuses' = job_statuses
        /\ DOMAIN round_results' = {}
        /\ to_query' = {}
        /\ rounds' = 0
        /\ sleeps' = 0
        /\ snapshot_file' = snapshot_file
        /\ snapshot_ok' = snapshot_ok]_vars

\* monitor() has returned the empty map after a deploy() whose every create
\* call failed, so that job_statuses is not empty
C11_Witness ==
    /\ mpc = "returned"
    /\ dpc = "returned"
    /\ DOMAIN deployed_jobs = {}
    /\ DOMAIN job_statuses # {}
    /\ DOMAIN monitor_ret = {}
    /\ rounds = 0

\* C12: every round ends with exactly one snapshot write, made when every job
\* active in the round has been queried and before the sleep or the return, and
\* no write is made at any other point; a write that succeeds records
\* job_statuses and deployed_jobs as they are at the end of the round; and no
\* write replaces a snapshot that an earlier round has written.
C12_SnapshotPerRound ==
    [][/\ EndRoundStep =>
            /\ writes' = writes + 1
            /\ writes' = rounds
            /\ DOMAIN round_results = active_jobs
            /\ to_query = {}
            /\ snapshot_ok' =>
                  /\ Len(snapshot_file') = 1
                  /\ snapshot_file'[1].job_statuses = job_statuses'
                  /\ snapshot_file'[1].deployed_jobs = deployed_jobs'
            /\ snapshot_file # << >> => snapshot_file' = snapshot_file
       /\ (MonitorRunning /\ ~EndRoundStep) =>
            /\ writes' = writes
            /\ snapshot_file' # << >> => snapshot_file' = snapshot_file]_vars

\* C13: in every snapshot written, total_jobs is the number of entries of
\* deployed_jobs, and active_jobs_count is the number of entries of job_statuses
\* whose status is none of SUCCEEDED, FAILED, CANCELLED, EXPIRED, CANCELLING and
\* STATUS_ERROR.
C13_SnapshotCounts ==
    [][(EndRoundStep /\ snapshot_ok') =>
        /\ snapshot_file'[1].total_jobs = Cardinality(DOMAIN deployed_jobs)
        /\ snapshot_file'[1].active_jobs_count =
              Cardinality({n \in DOMAIN job_statuses :
                  job_statuses[n] \notin {"JOB_STATE_SUCCEEDED", "JOB_STATE_FAILED",
                                          "JOB_STATE_CANCELLED", "JOB_STATE_EXPIRED",
                                          "JOB_STATE_CANCELLING", "STATUS_ERROR"}})]_vars

\* a snapshot of one deployed job, whose query failed, beside a job whose
\* submission failed: the STATUS_ERROR entry is not counted, the
\* DEPLOYMENT_FAILED entry is
C13_Witness ==
    /\ snapshot_file # << >>
    /\ snapshot_file[1].total_jobs = 1
    /\ snapshot_file[1].active_jobs_count = 1
    /\ \E n, m \in DOMAIN snapshot_file[1].job_statuses :
          /\ snapshot_file[1].job_statuses[n] = "STATUS_ERROR"
          /\ snapshot_file[1].job_statuses[m] = "DEPLOYMENT_FAILED"

\* ---- a cancel_job call, recognised by the record it leaves
CancelStep == cancel_call' # cancel_call /\ cancel_call'.called

\* C14: cancel_job never raises; for a name that is no key of deployed_jobs it
\* makes no cancel request and returns False; it returns False when the cancel
\* request raises; it returns True exactly when the request was made for the
\* resource id recorded under that name and did not raise.
C14_CancelReportsBoolean ==
    [][CancelStep =>
        LET c == cancel_call'
        IN /\ ~c.raised
           /\ c.display_name \notin DOMAIN deployed_jobs =>
                 (c.request = None /\ ~c.ret)
           /\ (c.request # None /\ ~c.request_ok) => ~c.ret
           /\ c.ret <=> /\ c.display_name \in DOMAIN deployed_jobs
                        /\ c.request = deployed_jobs[c.display_name]
                        /\ c.request_ok]_vars

\* the caller has had False from a cancel request that raised, for a job that
\* is deployed
C14_Witness ==
    /\ cancel_call.called
    /\ cancel_call.display_name \in DOMAIN deployed_jobs
    /\ cancel_call.request = deployed_jobs[cancel_call.display_name]
    /\ ~cancel_call.request_ok
    /\ ~cancel_call.ret

\* C15: cancel_job leaves deployed_jobs, job_statuses and the monitor (its
\* active set, the round under way, its position) as they are, also when it is
\* called while monitor() sleeps between two rounds; until deploy() is called
\* again, the status recorded for the cancelled job changes only in a poll
\* round's query of that job, which records what the query answers.
C15_CancelLeavesMonitorAlone ==
    [][/\ CancelStep =>
            /\ deployed_jobs' = deployed_jobs
            /\ job_statuses' = job_statuses
            /\ active_jobs' = active_jobs
            /\ to_query' = to_query
            /\ completed_in_poll' = completed_in_poll
            /\ mpc' = mpc
            /\ rounds' = rounds
       /\ (/\ cancel_call.called /\ cancel_call.ret
           /\ job_statuses'[cancel_call.display_name] # job_statuses[cancel_call.display_name]) =>
            /\ QueryStep
            /\ Queried = cancel_call.display_name
            /\ round_results'[Queried] # QueryRaises =>
                  job_statuses'[Queried] = round_results'[Queried]]_vars

\* a job cancelled while monitor() slept after round 1 has answered CANCELLED
\* to its query of round 2, which is now its recorded status
C15_Witness ==
    /\ cancel_call.called
    /\ cancel_call.ret
    /\ cancel_call.during = "sleep"
    /\ mpc = "poll"
    /\ rounds = 2
    /\ cancel_call.display_name \in DOMAIN round_results
    /\ round_results[cancel_call.display_name] = "JOB_STATE_CANCELLED"
    /\ job_statuses[cancel_call.display_name] = "JOB_STATE_CANCELLED"

\* ---- the return or raise of a JobConfig(...) call
ConstructStep == construct = "calling" /\ construct' # "calling"

\* C16: JobConfig(...) raises the validation error when accelerator_count > 0
\* with an empty accelerator_type, and when machine_type is empty; with a
\* non-empty accelerator_type and accelerator_count = 0 it succeeds and the
\* count is 1; in every other case it succeeds with accelerator_type and
\* accelerator_count as given; no other field is changed.
C16_JobConfigValidation ==
    [][ConstructStep =>
        LET given == raw_config
        IN IF \/ given.accelerator_count > 0 /\ given.accelerator_type = ""
              \/ given.machine_type = ""
           THEN construct' = "ValueError" /\ jobs' = << >>
           ELSE /\ construct' = "constructed"
                /\ Len(jobs') = 1
                /\ jobs'[1].accelerator_type = given.accelerator_type
                /\ jobs'[1].accelerator_count =
                      IF given.accelerator_type # "" /\ given.accelerator_count = 0
                      THEN 1 ELSE given.accelerator_count
                /\ [jobs'[1] EXCEPT !.accelerator_count = given.accelerator_count] = given]_vars

\* a JobConfig constructed from an accelerator type and a count of 0 has count 1
C16_Witness ==
    /\ construct = "constructed"
    /\ raw_config.accelerator_type = "NVIDIA_H100_80GB"
    /\ raw_config.accelerator_count = 0
    /\ jobs[1].accelerator_count = 1

\* the hardware block of the payload built for job i
HardwareBlock(i) == tasks[i].payload.job_spec.worker_pool_specs[1].machine_spec

\* C17: the hardware block of every payload built holds the job's
\* machine_type; it holds accelerator_type and accelerator_count, with the
\* job's values, exactly when the job's accelerator_count is greater than 0,
\* and holds nothing but machine_type otherwise.
C17_AcceleratorFields ==
    \A i \in 1..Len(tasks) :
        Built(i) =>
            /\ "machine_type" \in DOMAIN HardwareBlock(i)
            /\ HardwareBlock(i).machine_type = jobs[i].machine_type
            /\ IF jobs[i].accelerator_count > 0
               THEN /\ DOMAIN HardwareBlock(i) =
                          {"machine_type", "accelerator_type", "accelerator_count"}
                    /\ HardwareBlock(i).accelerator_type = jobs[i].accelerator_type
                    /\ HardwareBlock(i).accelerator_count = jobs[i].accelerator_count
               ELSE DOMAIN HardwareBlock(i) = {"machine_type"}

\* a payload built for a job with one H100 carries both accelerator fields
C17_Witness ==
    \E i \in 1..Len(tasks) :
        /\ Built(i)
        /\ jobs[i].accelerator_count = 1
        /\ HardwareBlock(i).accelerator_type = "NVIDIA_H100_80GB"
        /\ HardwareBlock(i).accelerator_count = 1

\* deployed_jobs when the loop of deploy() over the results has done its
\* first k iterations, in the step in which deploy() returns
RecordedAfter(k) ==
    CollectResults([i \in 1..k |-> tasks[i].result], jobs, experiment_name, 1,
                   [deployed |-> deployed_jobs, statuses |-> job_statuses]).deployed

\* C18: deployed_jobs is append-only: whatever the job list and the sequence
\* of calls, an entry that deploy() has recorded is never removed, and its
\* resource id is never replaced, by a later iteration of the loop that records
\* the results or by any later step; and only deploy() writes deployed_jobs,
\* monitor(), cancel_job and get_console_urls leaving it as it is.
C18_DeployedAppendOnly ==
    [][/\ \A n \in DOMAIN deployed_jobs :
              n \in DOMAIN deployed_jobs' /\ deployed_jobs'[n] = deployed_jobs[n]
       /\ DeployReturns =>
              \A k \in 1..Len(tasks) : \A n \in DOMAIN RecordedAfter(k - 1) :
                  /\ n \in DOMAIN RecordedAfter(k)
                  /\ RecordedAfter(k)[n] = RecordedAfter(k - 1)[n]
       /\ ~DeployReturns => deployed_jobs' = deployed_jobs]_vars

\* the job_spec of the payload built for job i, and whether the experiment has
\* a bucket (None and the empty string are both "no bucket" to the code)
JobSpecOf(i) == tasks[i].payload.job_spec
BucketSet == bucket_name # None /\ bucket_name # ""

\* C19 as stated: the output directory is in the payload exactly when the
\* experiment's bucket_name is set, and its path is then
\* "{bucket}/{experiment_name}/output/{display_name}".
C19_OutputPathAsStated ==
    \A i \in 1..Len(tasks) :
        Built(i) =>
            /\ "base_output_directory" \in DOMAIN JobSpecOf(i) <=> BucketSet
            /\ BucketSet =>
                  JobSpecOf(i).base_output_directory.output_uri_prefix =
                      bucket_name \o "/" \o experiment_name \o "/output/" \o NameOf(i)

\* C19 amended: the output directory is in the payload exactly when the
\* experiment's bucket_name is a non-empty string, and it then consists of the
\* one field output_uri_prefix with the value
\* "gs://{bucket}/{experiment_name}/vertex_ai_output/{display_name}".
C19_OutputUri ==
    \A i \in 1..Len(tasks) :
        Built(i) =>
            /\ "base_output_directory" \in DOMAIN JobSpecOf(i) <=> BucketSet
            /\ BucketSet =>
                  /\ DOMAIN JobSpecOf(i).base_output_directory = {"output_uri_prefix"}
                  /\ JobSpecOf(i).base_output_directory.output_uri_prefix =
                        "gs://" \o bucket_name \o "/" \o experiment_name
                            \o "/vertex_ai_output/" \o NameOf(i)

\* a payload built for the job named train of an experiment with a bucket
C19_Witness ==
    \E i \in 1..Len(tasks) :
        /\ Built(i)
        /\ bucket_name = "bkt"
        /\ jobs[i].display_name = "train"
        /\ JobSpecOf(i).base_output_directory.output_uri_prefix =
              "gs://bkt/exp/vertex_ai_output/train"

\* the union of the experiment's labels and job i's, job i's value on a key of both
MergedLabels(i) ==
    [k \in DOMAIN config_labels \cup DOMAIN jobs[i].labels |->
        IF k \in DOMAIN jobs[i].labels THEN jobs[i].labels[k] ELSE config_labels[k]]

\* C20: the labels of every payload built are the union of the experiment's
\* labels and the job's, with the job's value on a key of both; the payload has
\* no labels field exactly when that union is empty.
C20_LabelsMerged ==
    \A i \in 1..Len(tasks) :
        Built(i) =>
            /\ "labels" \notin DOMAIN tasks[i].payload <=> DOMAIN MergedLabels(i) = {}
            /\ "labels" \in DOMAIN tasks[i].payload =>
                  /\ DOMAIN tasks[i].payload.labels = DOMAIN MergedLabels(i)
                  /\ \A k \in DOMAIN MergedLabels(i) :
                        tasks[i].payload.labels[k] = MergedLabels(i)[k]

\* a payload built when the experiment and the job both label team: the job's
\* value is the one sent
C20_Witness ==
    \E i \in 1..Len(tasks) :
        /\ Built(i)
        /\ "team" \in DOMAIN config_labels
        /\ "team" \in DOMAIN jobs[i].labels
        /\ config_labels.team # jobs[i].labels.team
        /\ tasks[i].payload.labels.team = jobs[i].labels.team

\* the name the claims give job i (the i-th job, counted from 1, is the job at
\* 0-based index i - 1): its display_name if that is a non-empty string, else
\* "{experiment_name}-job-{i}"
ResolvedName(i) ==
    IF jobs[i].display_name # None /\ jobs[i].display_name # ""
    THEN jobs[i].display_name
    ELSE experiment_name \o "-job-" \o ToString(i)

\* job_statuses when the loop of deploy() over the results has done its first
\* k iterations, in the step in which deploy() returns
StatusesAfter(k) ==
    CollectResults([i \in 1..k |-> tasks[i].result], jobs, experiment_name, 1,
                   [deployed |-> deployed_jobs, statuses |-> job_statuses]).statuses

\* C21: the display name in the payload submitted for a job and the key under
\* which deploy() records that job's outcome are one name: the job's
\* display_name if it is set (a non-empty string), else
\* "{experiment_name}-job-{i+1}" for the job at 0-based index i.
C21_OneDisplayName ==
    [][/\ \A i \in 1..Len(tasks') :
              tasks'[i].st \in {"calling", "done"} =>
                  tasks'[i].payload.display_name = ResolvedName(i)
       /\ DeployReturns =>
              \A k \in 1..Len(tasks) :
                  /\ ResolvedName(k) \in DOMAIN StatusesAfter(k)
                  /\ CreateFailed(k) => StatusesAfter(k)[ResolvedName(k)] = "DEPLOYMENT_FAILED"
                  /\ ~CreateFailed(k) =>
                        /\ StatusesAfter(k)[ResolvedName(k)] = "SUBMITTED"
                        /\ ResolvedName(k) \in DOMAIN RecordedAfter(k)
                        /\ RecordedAfter(k)[ResolvedName(k)] = tasks[k].result
                  /\ \A n \in DOMAIN StatusesAfter(k) \ {ResolvedName(k)} :
                        /\ n \in DOMAIN StatusesAfter(k - 1)
                        /\ StatusesAfter(k)[n] = StatusesAfter(k - 1)[n]
                  /\ \A n \in DOMAIN RecordedAfter(k) \ {ResolvedName(k)} :
                        /\ n \in DOMAIN RecordedAfter(k - 1)
                        /\ RecordedAfter(k)[n] = RecordedAfter(k - 1)[n]]_vars

\* deploy() has returned for a first job with an empty display_name and a second
\* one named by the caller: both were submitted and recorded under their names
C21_Witness ==
    /\ dpc = "returned"
    /\ Len(jobs) = 2
    /\ jobs[1].display_name = ""
    /\ jobs[2].display_name = "exp-job-2"
    /\ tasks[1].payload.display_name = "exp-job-1"
    /\ tasks[2].payload.display_name = "exp-job-2"
    /\ DOMAIN deployed_jobs = {"exp-job-1", "exp-job-2"}

\* C22: in one deploy() call the create call is made exactly once for every
\* job: a task that has made its call, whatever the outcome, never makes it
\* again, whatever the other tasks do, and deploy() returns only when every
\* job's task has made its call and has its outcome.
C22_NoRetry ==
    [][/\ \A i \in 1..Len(tasks) :
              /\ (dpc = "gather" /\ tasks[i].st = "calling") =>
                     tasks'[i].st \in {"calling", "done"}
              /\ (dpc = "gather" /\ tasks[i].st = "done") =>
                     /\ tasks'[i].st = "done"
                     /\ tasks'[i].result = tasks[i].result
       /\ DeployReturns =>
              /\ Len(tasks) = Len(jobs)
              /\ \A i \in 1..Len(tasks) :
                    tasks[i].st = "done" /\ tasks[i].result # None]_vars

\* deploy() has returned after the first job's create call failed and the
\* second job's succeeded, each made once
C22_Witness ==
    /\ dpc = "returned"
    /\ Len(tasks) = 2
    /\ tasks[1].st = "done" /\ tasks[1].result = "Exception"
    /\ tasks[2].st = "done" /\ tasks[2].result = ResourceName(1)
    /\ next_id = 2

\* the status the loop of deploy() records for the outcome of job k
OutcomeStatus(k) == IF CreateFailed(k) THEN "DEPLOYMENT_FAILED" ELSE "SUBMITTED"

\* C23: while deploy() waits for the gather, that is until every job's create
\* call is over, neither deployed_jobs nor job_statuses gets or changes an
\* entry; the step in which deploy() returns comes when no call is outstanding
\* and writes every job's outcome once: iteration k of its loop writes the
\* status of job k, and the resource id of job k if its call succeeded, and
\* nothing else.
C23_WritesAfterGather ==
    [][/\ (dpc = "gather" /\ ~DeployReturns) =>
              /\ deployed_jobs' = deployed_jobs
              /\ job_statuses' = job_statuses
       /\ DeployReturns =>
              /\ InFlight = {}
              /\ \A i \in 1..Len(tasks) : tasks[i].st = "done"
              /\ job_statuses' = StatusesAfter(Len(tasks))
              /\ deployed_jobs' = RecordedAfter(Len(tasks))
              /\ \A k \in 1..Len(tasks) :
                    /\ StatusesAfter(k) =
                          (NameOf(k) :> OutcomeStatus(k)) @@ StatusesAfter(k - 1)
                    /\ RecordedAfter(k) =
                          IF CreateFailed(k) THEN RecordedAfter(k - 1)
                          ELSE (NameOf(k) :> tasks[k].result) @@ RecordedAfter(k - 1)]_vars

\* the first job's create call has succeeded and the second job's is
\* outstanding: nothing is recorded yet
C23_Witness ==
    /\ dpc = "gather"
    /\ Len(tasks) = 2
    /\ tasks[1].st = "done" /\ tasks[1].result = ResourceName(1)
    /\ tasks[2].st = "calling"
    /\ DOMAIN deployed_jobs = {}
    /\ DOMAIN job_statuses = {}

\* a step of the for loop of monitor(), and what a query's outcome leaves in
\* job_statuses
ForLoopStep == mpc = "poll" /\ mpc' = "poll"
StatusFor(r) == IF r = QueryRaises THEN "STATUS_ERROR" ELSE r

\* C24: every step of the for loop queries one job that is active and has not
\* been queried in this round, and writes that query's outcome (the state, or
\* STATUS_ERROR when the query raised) to the job's entry and to no other, in
\* the same step; a round ends when every job active in it has been queried
\* once, and then the entry of each of them is its outcome of this round; the
\* next round's queries begin only after the sleep, with job_statuses as the
\* round before left it.
C24_RoundOrder ==
    [][/\ ForLoopStep =>
              /\ DOMAIN round_results' # DOMAIN round_results
              /\ Queried \in to_query
              /\ Queried \in active_jobs
              /\ to_query' = to_query \ {Queried}
              /\ DOMAIN round_results' = DOMAIN round_results \cup {Queried}
              /\ \A n \in DOMAIN round_results : round_results'[n] = round_results[n]
              /\ job_statuses' =
                    (Queried :> StatusFor(round_results'[Queried])) @@ job_statuses
       /\ EndRoundStep =>
              /\ DOMAIN round_results = active_jobs
              /\ \A n \in active_jobs : job_statuses[n] = StatusFor(round_results[n])
              /\ job_statuses' = job_statuses
       /\ WakeStep =>
              /\ to_query' = active_jobs
              /\ DOMAIN round_results' = {}
              /\ rounds' = rounds + 1
              /\ job_statuses' = job_statuses]_vars

\* the second round has recorded a final state for a job that was still
\* running in the first
C24_Witness ==
    /\ mpc = "poll"
    /\ rounds = 2
    /\ \E n \in DOMAIN round_results :
          /\ round_results[n] = "JOB_STATE_SUCCEEDED"
          /\ job_statuses[n] = "JOB_STATE_SUCCEEDED"
          /\ quota[n] < MaxNonTerminal

\* C25: when deploy() returns, a display name is a key of deployed_jobs exactly
\* if its job_statuses entry is "SUBMITTED", and no name whose entry is
\* "DEPLOYMENT_FAILED" is a key of deployed_jobs, whatever the job list, two
\* jobs of one display name included.
C25_KeysAreSubmitted ==
    [][DeployReturns =>
          /\ DOMAIN deployed_jobs' \subseteq DOMAIN job_statuses'
          /\ \A n \in DOMAIN job_statuses' :
                /\ n \in DOMAIN deployed_jobs' <=> job_statuses'[n] = "SUBMITTED"
                /\ job_statuses'[n] = "DEPLOYMENT_FAILED" => n \notin DOMAIN deployed_jobs']_vars

\* C26: the active_jobs_count of every snapshot monitor() writes is the number
\* of jobs left in the active set at the end of the round, after the jobs
\* completed in the round have been removed.
C26_ActiveCountIsActiveSet ==
    [][(EndRoundStep /\ snapshot_ok') =>
          /\ Len(snapshot_file') = 1
          /\ snapshot_file'[1].active_jobs_count = Cardinality(active_jobs')]_vars

\* C27: while a monitor() call is under way its active set is a set of keys of
\* deployed_jobs and no step adds a job to it; a job leaves it with a final
\* state as its job_statuses entry; a job that has left it is not queried
\* again, and its entry stays as it is in every step up to and including the
\* return of monitor().
C27_RemovedJobsStayPut ==
    [][MonitorRunning =>
          /\ active_jobs \subseteq DOMAIN deployed_jobs
          /\ active_jobs' \subseteq active_jobs
          /\ ForLoopStep => /\ DOMAIN round_results' # DOMAIN round_results
                             /\ Queried \in active_jobs
          /\ \A n \in active_jobs \ active_jobs' : job_statuses'[n] \in TerminalStates
          /\ \A n \in DOMAIN deployed_jobs \ active_jobs :
                /\ job_statuses[n] \in TerminalStates
                /\ job_statuses'[n] = job_statuses[n]]_vars

\* the second round is over: it has queried the job that was still running
\* and has left alone the job that the first round removed
C27_Witness ==
    /\ mpc = "poll"
    /\ rounds = 2
    /\ to_query = {}
    /\ \E n \in DOMAIN deployed_jobs \ active_jobs :
          /\ job_statuses[n] \in TerminalStates
          /\ n \notin DOMAIN round_results
    /\ \E m \in active_jobs : m \in DOMAIN round_results

====
